---- MODULE Spec2Model ----
(***************************************************************************)
(* Model of the CHAI attendance system: the flash-challenge liveness       *)
(* verifier, the FAISS identity index, the SQLite attendance ledger and    *)
(* the attendance pipelines that compose them (the Flask route             *)
(* take_attendance_browser of app.py and the command-line attendance_flow  *)
(* of main.py), with enrollment, the reset script reset_system.py, the     *)
(* Pinecone variant of the index and the in-memory AttendanceManager.      *)
(*                                                                         *)
(* Numbers: floating-point metrics are kept as scaled integers.            *)
(*   brightness_change_percent  tenths of a percent   (25   = 2.5 %)       *)
(*   color_variance             units                 (2400 = 2400.0)      *)
(*   edge_density               1/10000               (600  = 0.0600)      *)
(*   uniformity                 tenths                (520  = 52.0)        *)
(*   nonuniformity              hundredths            (40   = 0.40)        *)
(*   mean_delta                 tenths                (8    = 0.8)         *)
(*   a score                    1/6000                (6000 = 1.0)         *)
(* Embeddings are points of a line; the FAISS IndexFlatL2 distance of two  *)
(* embeddings is the square of their difference, in units of the           *)
(* threshold (1 = 1.0).                                                    *)
(***************************************************************************)
EXTENDS Integers, Sequences, FiniteSets, TLC

VARIABLES students, vectors, id_map, ledger, clock, att, files, svc, probe

vars == <<students, vectors, id_map, ledger, clock, att, files, svc, probe>>

(***************************************************************************)
(* Bounds of the model.                                                    *)
(***************************************************************************)
NumAttempts == 2
MaxKey == 2
MaxEmb == 2
MaxIndex == 2
MaxClock == 2

Attempts == 1..NumAttempts
Keys == 1..MaxKey
Emb == 0..MaxEmb

(***************************************************************************)
(* Liveness verifier: services/liveness_detector.py                        *)
(***************************************************************************)
MIN_BRIGHTNESS_CHANGE == 25
MAX_BRIGHTNESS_CHANGE == 120
MIN_COLOR_VARIANCE == 2400
MAX_EDGE_DENSITY == 600
MIN_UNIFORMITY == 520
MAX_NONUNIFORMITY == 40
MIN_MEAN_DELTA == 8
MAX_MEAN_DELTA == 25
MIN_TOTAL_SCORE == 25200
HARD_FAIL_EDGE_DENSITY == 650
HARD_FAIL_LOW_VARIANCE == 2200
HARD_FAIL_NONUNIFORMITY == 60

Abs(x) == IF x < 0 THEN -x ELSE x
Max2(x, y) == IF x >= y THEN x ELSE y
Min2(x, y) == IF x <= y THEN x ELSE y

\* The float nan, which numpy's mean and std return for an empty list, and
\* the comparisons of floats: every comparison with nan is false.
NaN == -1000000
Lt(x, y) == x # NaN /\ y # NaN /\ x < y
Le(x, y) == x # NaN /\ y # NaN /\ x <= y
Gt(x, y) == x # NaN /\ y # NaN /\ x > y
Ge(x, y) == x # NaN /\ y # NaN /\ x >= y

\* _get_distance_feedback(metrics)
GetDistanceFeedback(m) ==
  LET variance == m.color_variance
      brightness == m.brightness_change_percent
  IN  IF Lt(variance, 2200) /\ Lt(brightness, 30)
        THEN "Please move CLOSER to the camera"
      ELSE IF Gt(brightness, 130)
        THEN "Please move BACK from the camera"
      ELSE IF Lt(variance, 2600)
        THEN "Move slightly CLOSER for better detection"
      ELSE IF Le(2800, variance) /\ Le(variance, 4000)
              /\ Le(30, brightness) /\ Le(brightness, 100)
        THEN "Distance is perfect!"
      ELSE "Position not optimal - try adjusting distance"

\* Check 1 .. Check 6 of _check_liveness_with_scoring
ScoreBrightness(m) ==
  IF Le(MIN_BRIGHTNESS_CHANGE, m.brightness_change_percent)
     /\ Le(m.brightness_change_percent, MAX_BRIGHTNESS_CHANGE)
    THEN Max2(3000, 6000 - 75 * Abs(m.brightness_change_percent - 60))
    ELSE 1200

\* Check 2 without the cap min(1.0, ...) on the upper band
ScoreVariance_Uncapped(m) ==
  IF Ge(m.color_variance, MIN_COLOR_VARIANCE)
    THEN IF Ge(m.color_variance, 2800)
           THEN 4800 + 2 * (m.color_variance - 2800)
           ELSE 3000 + 6 * (m.color_variance - 2400)
    ELSE 600

ScoreVariance(m) ==
  IF Ge(m.color_variance, MIN_COLOR_VARIANCE)
    THEN IF Ge(m.color_variance, 2800)
           THEN Min2(6000, 4800 + 2 * (m.color_variance - 2800))
           ELSE 3000 + 6 * (m.color_variance - 2400)
    ELSE 600

ScoreEdges(m) ==
  IF Le(m.edge_density, MAX_EDGE_DENSITY)
    THEN 3600 + (2400 - 4 * m.edge_density)
    ELSE 1200

ScoreUniformity(m) ==
  IF Ge(m.uniformity, MIN_UNIFORMITY)
    THEN Min2(6000, 4200 + 20 * (m.uniformity - MIN_UNIFORMITY))
  ELSE IF Ge(m.uniformity, 450)
    THEN 3000
  ELSE 1200

ScoreNonuniformity(m) ==
  IF Le(m.nonuniformity, MAX_NONUNIFORMITY)
    THEN 4800 + (1200 - 30 * m.nonuniformity)
    ELSE 1800

ScoreMeanDelta(m) ==
  IF Le(MIN_MEAN_DELTA, m.mean_delta) /\ Le(m.mean_delta, MAX_MEAN_DELTA)
    THEN Max2(3600, 6000 - 400 * Abs(m.mean_delta - 15))
  ELSE IF Le(6, m.mean_delta) /\ Le(m.mean_delta, 28)
    THEN 2400
  ELSE 600

\* the dictionary `scores` when the six checks have run
Scores(m) ==
  [brightness |-> ScoreBrightness(m), variance |-> ScoreVariance(m),
   edges |-> ScoreEdges(m), uniformity |-> ScoreUniformity(m),
   nonuniformity |-> ScoreNonuniformity(m), mean_delta |-> ScoreMeanDelta(m)]

\* the dictionary `scores` of a hard fail: {}
NoScores == [k \in {} |-> 0]

\* sum(scores.values())
SumScores(sc) ==
  sc.brightness + sc.variance + sc.edges + sc.uniformity + sc.nonuniformity
  + sc.mean_delta

TotalScore(m) == SumScores(Scores(m))

\* the list `reasons` built while scoring
ScoreReasons(m) ==
  (IF Le(MIN_BRIGHTNESS_CHANGE, m.brightness_change_percent)
      /\ Le(m.brightness_change_percent, MAX_BRIGHTNESS_CHANGE)
     THEN <<>>
     ELSE IF Lt(m.brightness_change_percent, MIN_BRIGHTNESS_CHANGE)
            THEN <<"Too far from camera">>
            ELSE <<"Too close to camera">>)
  \o (IF Ge(m.color_variance, MIN_COLOR_VARIANCE) THEN <<>> ELSE <<"Low detail">>)
  \o (IF Le(m.edge_density, MAX_EDGE_DENSITY) THEN <<>> ELSE <<"High edges">>)
  \o (IF Ge(m.uniformity, 450) THEN <<>> ELSE <<"Flat surface">>)
  \o (IF Le(m.nonuniformity, MAX_NONUNIFORMITY) THEN <<>> ELSE <<"Inconsistent">>)
  \o (IF Le(6, m.mean_delta) /\ Le(m.mean_delta, 28) THEN <<>> ELSE <<"Motion issue">>)

\* the f-string "Low confidence (x/6.0) - " + ', '.join(reasons[:2])
LowConfidence(m) ==
  <<"Low confidence">> \o SubSeq(ScoreReasons(m), 1, Min2(2, Len(ScoreReasons(m))))

\* the low-score branch of _check_liveness_with_scoring giving the joined
\* reasons alone, without the "Low confidence" prefix
LowScoreVerdict_ReasonsOnly(m) ==
  [is_live |-> FALSE, hard |-> FALSE,
   reason |-> SubSeq(ScoreReasons(m), 1, Min2(2, Len(ScoreReasons(m)))),
   scores |-> Scores(m)]

\* the low-score branch giving the distance feedback as the reason on
\* every path
LowScoreVerdict_FeedbackAlways(m) ==
  [is_live |-> FALSE, hard |-> FALSE, reason |-> <<GetDistanceFeedback(m)>>,
   scores |-> Scores(m)]

\* the branch `if not is_live:` of _check_liveness_with_scoring
LowScoreVerdict(m) ==
  [is_live |-> FALSE, hard |-> FALSE,
   reason |-> IF Lt(m.color_variance, 2400) \/ Lt(m.brightness_change_percent, 30)
                THEN <<GetDistanceFeedback(m)>>
              ELSE IF Gt(m.brightness_change_percent, 130)
                THEN <<GetDistanceFeedback(m)>>
              ELSE LowConfidence(m),
   scores |-> Scores(m)]

\* the hard-fail conditions without the third, on nonuniformity
HardFail_NoRefreshPattern(m) ==
  IF Gt(m.edge_density, HARD_FAIL_EDGE_DENSITY)
    THEN <<"Screen detected (edge density)">>
  ELSE IF Lt(m.color_variance, HARD_FAIL_LOW_VARIANCE)
    THEN <<"Too far from camera or flat surface (variance)">>
  ELSE <<>>

\* the hard-fail conditions with the variance floor looked at before the
\* edge density
HardFail_VarianceFirst(m) ==
  IF Lt(m.color_variance, HARD_FAIL_LOW_VARIANCE)
    THEN <<"Too far from camera or flat surface (variance)">>
  ELSE IF Gt(m.edge_density, HARD_FAIL_EDGE_DENSITY)
    THEN <<"Screen detected (edge density)">>
  ELSE IF Gt(m.nonuniformity, HARD_FAIL_NONUNIFORMITY)
    THEN <<"Screen refresh pattern detected (nonuniformity)">>
  ELSE <<>>

\* the hard-fail conditions of _check_liveness_with_scoring: the reason of
\* the first one that holds, <<>> when none does
HardFail(m) ==
  IF Gt(m.edge_density, HARD_FAIL_EDGE_DENSITY)
    THEN <<"Screen detected (edge density)">>
  ELSE IF Lt(m.color_variance, HARD_FAIL_LOW_VARIANCE)
    THEN <<"Too far from camera or flat surface (variance)">>
  ELSE IF Gt(m.nonuniformity, HARD_FAIL_NONUNIFORMITY)
    THEN <<"Screen refresh pattern detected (nonuniformity)">>
  ELSE <<>>

\* _check_liveness_with_scoring(m): the verdict, the failure reason and the
\* scores.  A reason is the sequence of the pieces of the formatted string,
\* so the empty string is the empty sequence.
CheckLivenessWithScoring(m) ==
  IF HardFail(m) # <<>>
    THEN [is_live |-> FALSE, hard |-> TRUE, reason |-> HardFail(m),
          scores |-> NoScores]
  ELSE IF TotalScore(m) >= MIN_TOTAL_SCORE
    THEN [is_live |-> TRUE, hard |-> FALSE, reason |-> <<>>,
          scores |-> Scores(m)]
  ELSE LowScoreVerdict(m)

\* the dictionary `metrics` analyze_frames computes from the two batches,
\* where x holds what the frames measure when every list is non-empty:
\* np.mean and np.std of an empty list are nan, zip stops at the shorter
\* batch, get_mean_delta is 0 for fewer than two before frames and
\* brightness_change_percent is 0 unless before_brightness > 0
Measure(before, after, x) ==
  [brightness_change_percent |->
     IF before.n = 0 THEN 0
     ELSE IF after.n = 0 THEN NaN ELSE x.brightness_change_percent,
   color_variance |-> IF before.n = 0 THEN NaN ELSE x.color_variance,
   edge_density |-> IF before.n = 0 THEN NaN ELSE x.edge_density,
   uniformity |-> IF before.n = 0 THEN NaN ELSE x.uniformity,
   nonuniformity |-> IF Min2(before.n, after.n) = 0 THEN NaN ELSE x.nonuniformity,
   mean_delta |-> IF before.n <= 1 THEN 0 ELSE x.mean_delta]

\* analyze_frames(before_frames, after_frames): cv2 raises on a None frame,
\* otherwise the verdict on the metrics the frames yield
AnalyzeFrames(before, after, x) ==
  IF before.none \/ after.none
    THEN [kind |-> "raised", is_live |-> FALSE, hard |-> FALSE,
          reason |-> <<"OpenCV error">>, scores |-> NoScores]
    ELSE [kind |-> "verdict"] @@ CheckLivenessWithScoring(Measure(before, after, x))



(***************************************************************************)
(* Identity index: services/face_recognition_service.py                    *)
(***************************************************************************)
THRESHOLD == 1

\* str(student_id) as add_to_index stores it, and int(student_id) /
\* safe_cast_int as the pipelines read it back
Str(k) == ToString(k)
IntOf(s) == CHOOSE k \in 0..(MaxKey + 1) : ToString(k) = s

\* IndexFlatL2 distance: squared Euclidean distance
L2(x, y) == (x - y) * (x - y)

\* index.search(..., k=1): the position of the nearest stored vector, the
\* earliest one on a tie
Nearest(vecs, e) ==
  CHOOSE i \in 1..Len(vecs) :
    /\ \A j \in 1..Len(vecs) : L2(vecs[i], e) <= L2(vecs[j], e)
    /\ \A j \in 1..(i - 1) : L2(vecs[j], e) > L2(vecs[i], e)

\* find_match(embedding).  kind "none" is (None, None), "far" is
\* (None, distance), "match" is (student_id, distance) and "IndexError" is
\* the exception of self.id_map[idx] when the id map is shorter than the index.
FindMatch(vecs, idmap, e) ==
  IF Len(vecs) = 0
    THEN [kind |-> "none", key |-> "", dist |-> -1]
  ELSE LET idx == Nearest(vecs, e)
           distance == L2(vecs[idx], e)
       IN  IF distance > THRESHOLD
             THEN [kind |-> "far", key |-> "", dist |-> distance]
           ELSE IF idx > Len(idmap)
             THEN [kind |-> "IndexError", key |-> "", dist |-> distance]
           ELSE [kind |-> "match", key |-> idmap[idx], dist |-> distance]

(***************************************************************************)
(* The files of the index.  The service keeps the vectors in index_path    *)
(* and the subject keys in id_map_path, both under                         *)
(* ~/FaceRecognitionData/embeddings; reset_embeddings removes the two      *)
(* paths of ResetPaths, under the working directory.  A file is absent or  *)
(* holds a sequence.  The database the engine opens is database_url; its   *)
(* tables are the variables students and ledger.  reset_database removes   *)
(* the file db_path.                                                       *)
(***************************************************************************)
index_path == "~/FaceRecognitionData/embeddings/faiss_index.bin"
id_map_path == "~/FaceRecognitionData/embeddings/id_map.bin"
ResetPaths == <<"data/embeddings/faiss_index_cosine.bin", "data/embeddings/id_map.npy">>
database_url == "data/attendance.db"
db_path == "data/database/attendance.db"
Paths == {index_path, id_map_path, ResetPaths[1], ResetPaths[2], db_path}

NoFile == [exists |-> FALSE, data |-> <<>>]
FileOf(data) == [exists |-> TRUE, data |-> data]

\* faiss.write_index(self.index, self.index_path)
SaveIndex(fs, vecs) == [fs EXCEPT ![index_path] = FileOf(vecs)]

\* the id map written where reset_embeddings looks for it
SaveIdMap_ResetPath(fs, idmap) == [fs EXCEPT ![ResetPaths[2]] = FileOf(idmap)]

\* pickle.dump(self.id_map, f) into id_map_path
SaveIdMap(fs, idmap) == [fs EXCEPT ![id_map_path] = FileOf(idmap)]

\* _load_index(): each file is read if it exists, else a new empty index or
\* an empty list takes its place
LoadIndex(fs) ==
  [vectors |-> IF fs[index_path].exists THEN fs[index_path].data ELSE <<>>,
   id_map |-> IF fs[id_map_path].exists THEN fs[id_map_path].data ELSE <<>>]

\* os.remove(p) if os.path.exists(p)
RemoveFile(fs, p) == [fs EXCEPT ![p] = NoFile]

\* the files that hold the given vectors and keys; nothing was saved for an
\* empty collection
StoredAs(vecs, idmap) ==
  [p \in Paths |->
     IF p = index_path /\ vecs # <<>> THEN FileOf(vecs)
     ELSE IF p = id_map_path /\ idmap # <<>> THEN FileOf(idmap)
     ELSE NoFile]

\* the index service of a running program: pc is where it stands ("down"
\* before _load_index, "ready", or between the two writes of _save_index),
\* result the answer of its last find_match with the query q, reset the
\* position of a running reset_embeddings, log the pairs handed to
\* add_to_index so far, prev the answer of the call before the last one when
\* that call had the same query and nothing was added in between
NoResult == [kind |-> "unset", key |-> "", dist |-> -1]
ReadyService ==
  [pc |-> "ready", q |-> -1, result |-> NoResult, reset |-> 0, log |-> <<>>,
   prev |-> NoResult]

(***************************************************************************)
(* Subject store and attendance ledger: services/database_service.py and   *)
(* database/models.py.  A timestamp is a clock reading; its calendar day   *)
(* is the reading divided by the readings per day.                         *)
(***************************************************************************)
TICKS_PER_DAY == 2

\* timestamp.date() / func.date(timestamp) / date.today()
DateOf(t) == t \div TICKS_PER_DAY

\* timestamp.strftime("%H:%M:%S"): the time of day, without the date
StrfTime(t) == t % TICKS_PER_DAY

\* get_student_by_id(student_id); the subject store maps a student id to its
\* roll number
GetStudentById(studs, student_id) == student_id \in DOMAIN studs

\* get_student_by_roll(roll_no)
GetStudentByRoll(studs, roll_no) == \E k \in DOMAIN studs : studs[k] = roll_no

\* enroll_student(...): insert and commit, the id being the next row id
NextStudentId(studs) ==
  IF DOMAIN studs = {} THEN 1
  ELSE 1 + CHOOSE k \in DOMAIN studs : \A j \in DOMAIN studs : j <= k

EnrollStudent(studs, roll_no) ==
  [k \in DOMAIN studs \cup {NextStudentId(studs)} |->
     IF k \in DOMAIN studs THEN studs[k] ELSE roll_no]

\* mark_attendance(student_id, confidence): insert and commit, the timestamp
\* defaulting to datetime.now
MarkAttendance(ldg, student_id, confidence, now) ==
  Append(ldg, [student_id |-> student_id, timestamp |-> now,
               confidence |-> confidence])

\* is_attendance_marked_today(student_id), with today read by the caller
IsAttendanceMarkedToday(ldg, student_id, today) ==
  \E i \in 1..Len(ldg) :
    ldg[i].student_id = student_id /\ DateOf(ldg[i].timestamp) = today

\* get_attendance_record(student_id, day): the position of the first event of
\* the student on that day, 0 for None
GetAttendanceRecord(ldg, student_id, day) ==
  IF \E i \in 1..Len(ldg) :
       ldg[i].student_id = student_id /\ DateOf(ldg[i].timestamp) = day
    THEN CHOOSE i \in 1..Len(ldg) :
           /\ ldg[i].student_id = student_id /\ DateOf(ldg[i].timestamp) = day
           /\ \A j \in 1..(i - 1) :
                ~(ldg[j].student_id = student_id /\ DateOf(ldg[j].timestamp) = day)
    ELSE 0

\* confidence = 1.0 / (1.0 + distance), kept as numerator and denominator
ConfidenceFromDistance(d) == <<1, 1 + d>>


(***************************************************************************)
(* Inputs of an attendance attempt.                                        *)
(***************************************************************************)
FRAME_COUNT == 5

\* A frame batch: n frames, some of them None (undecodable) or all images.
\* The route hands the verifier two decoded batches of FRAME_COUNT frames.
FullBatch == [n |-> FRAME_COUNT, none |-> FALSE]
MAX_DISTANCE_METERS == 100

\* lengths of a submitted frame batch
FrameCounts == {0, FRAME_COUNT - 1, FRAME_COUNT, FRAME_COUNT + 1}

\* distance of the submitted position from the server in metres, -1 when
\* the request carries no position
GeoDistances == {-1, 50, 150}

\* metric bundles the submitted frames can yield: a live face, a screen
\* replay, a dim distant face and a flat low-detail surface
LiveFace == [brightness_change_percent |-> 60, color_variance |-> 3000,
             edge_density |-> 300, uniformity |-> 550, nonuniformity |-> 20,
             mean_delta |-> 15]
ScreenReplay == [LiveFace EXCEPT !.edge_density = 700]
DimFace == [brightness_change_percent |-> 10, color_variance |-> 2500,
            edge_density |-> 620, uniformity |-> 460, nonuniformity |-> 50,
            mean_delta |-> 15]
FlatSurface == [brightness_change_percent |-> 60, color_variance |-> 2500,
                edge_density |-> 620, uniformity |-> 400, nonuniformity |-> 50,
                mean_delta |-> 30]
Bundles == {LiveFace, ScreenReplay, DimFace, FlatSurface}

\* a call of analyze_frames: its arguments and what it gave; NoProbe when
\* the verifier runs only inside the pipelines
NoVerdict ==
  [kind |-> "unset", is_live |-> FALSE, hard |-> FALSE, reason |-> <<>>,
   scores |-> NoScores]
NoProbe ==
  [before |-> FullBatch, after |-> FullBatch, x |-> LiveFace, result |-> NoVerdict]

\* str(e) of the exceptions the collaborators raise
MsgIndexError == <<"list index out of range">>
MsgCv == <<"OpenCV error">>
MsgModel == <<"inference failed">>
MsgDb == <<"database is locked">>

(***************************************************************************)
(* State of one attendance attempt.  sid, dist, day are the locals         *)
(* student id, face distance and today (0, -1, -1 while unset); live,      *)
(* subject, passed, vreason, raised and wrote record what happened: the    *)
(* verifier's verdict and reason, the subject lookup's result, the stages  *)
(* passed in order, whether a stage raised and the number of events the    *)
(* attempt inserted; frames tells whether the two submitted batches had    *)
(* FRAME_COUNT frames each ("none" until the route looks at them).         *)
(***************************************************************************)
IdleAttempt ==
  [pc |-> "idle", entry |-> "none", sid |-> 0, dist |-> -1, day |-> -1,
   live |-> "unknown", subject |-> "unknown", outcome |-> "none",
   status |-> 0, reason |-> <<>>, vreason |-> <<>>, passed |-> <<>>,
   raised |-> FALSE, wrote |-> 0, frames |-> "none"]

\* return jsonify({'success': ..., 'message': ...}), status
Respond(r, status, message) ==
  [r EXCEPT !.pc = "done", !.dist = -1,
            !.outcome = IF status = 200 THEN "Accepted" ELSE "Rejected",
            !.status = status, !.reason = message]

\* WebExcept reporting the exception as the normal "not recognized" outcome
WebExcept_AsNotRecognized(r, message) ==
  [Respond(r, 400, <<"Face not recognized. Please enroll first.">>)
     EXCEPT !.raised = TRUE]

\* except Exception as e: return jsonify({'success': False, 'message': str(e)}), 500
WebExcept(r, message) == [Respond(r, 500, message) EXCEPT !.raised = TRUE]

\* verify_location(user_lat, user_lon)
VerifyLocation(geo) ==
  IF geo = -1
    THEN [valid |-> FALSE, message |-> <<"Student location not provided">>]
  ELSE IF geo <= MAX_DISTANCE_METERS
    THEN [valid |-> TRUE, message |-> <<"Location verified">>]
  ELSE [valid |-> FALSE, message |-> <<"Too far from system">>]

(***************************************************************************)
(* The Flask route take_attendance_browser, one action per stage.  Each    *)
(* request runs on its own thread, so the stages of different attempts     *)
(* interleave.  Attempts are numbered in the order the requests arrive.    *)
(***************************************************************************)
\* decode_base64_image(base64_string) for the frames of both batches:
\* "ok" every frame decodes, "invalid" cv2.imdecode returns None for one,
\* "raises" base64/numpy raise for one, which the helper catches and turns
\* into None
DecodeResults == {"ok", "invalid", "raises"}
AnyFrameNone(decoded) == decoded # "ok"

\* whether the batches of nb and na frames are what the protocol asks for
CountedAs(nb, na) ==
  IF nb = FRAME_COUNT /\ na = FRAME_COUNT THEN "exact" ELSE "miscounted"

\* WebValidate counting the before batch only
WebValidate_BeforeOnly(a) ==
  /\ att[a].pc = "idle" /\ \A b \in 1..(a - 1) : att[b].pc # "idle"
  /\ \E geo \in GeoDistances :
       LET r == [att[a] EXCEPT !.entry = "web"]
           loc == VerifyLocation(geo)
       IN  IF ~loc.valid
             THEN att' = [att EXCEPT ![a] = Respond(r, 400, loc.message)]
             ELSE \E nb \in FrameCounts, na \in FrameCounts :
                    LET rf == [r EXCEPT !.frames = CountedAs(nb, na)]
                    IN  IF nb # FRAME_COUNT
                          THEN att' = [att EXCEPT ![a] =
                                 Respond(rf, 400, <<"Expected 5 before and 5 after frames">>)]
                          ELSE \E decoded \in DecodeResults :
                                 att' = [att EXCEPT ![a] =
                                   IF AnyFrameNone(decoded)
                                     THEN [Respond(rf, 400, <<"Failed to decode one or more frames">>)
                                             EXCEPT !.raised = (decoded = "raises")]
                                     ELSE [rf EXCEPT !.pc = "liveness"]]
  /\ UNCHANGED <<files, svc, probe, students, vectors, id_map, ledger, clock>>

\* location gate, frame count and frame decoding; the route looks at the
\* frames only past the gate and decodes them only when the counts are right
WebValidate(a) ==
  /\ att[a].pc = "idle" /\ \A b \in 1..(a - 1) : att[b].pc # "idle"
  /\ \E geo \in GeoDistances :
       LET r == [att[a] EXCEPT !.entry = "web"]
           loc == VerifyLocation(geo)
       IN  IF ~loc.valid
             THEN att' = [att EXCEPT ![a] = Respond(r, 400, loc.message)]
             ELSE \E nb \in FrameCounts, na \in FrameCounts :
                    LET rf == [r EXCEPT !.frames = CountedAs(nb, na)]
                    IN  IF nb # FRAME_COUNT \/ na # FRAME_COUNT
                          THEN att' = [att EXCEPT ![a] =
                                 Respond(rf, 400, <<"Expected 5 before and 5 after frames">>)]
                          ELSE \E decoded \in DecodeResults :
                                 att' = [att EXCEPT ![a] =
                                   IF AnyFrameNone(decoded)
                                     THEN [Respond(rf, 400, <<"Failed to decode one or more frames">>)
                                             EXCEPT !.raised = (decoded = "raises")]
                                     ELSE [rf EXCEPT !.pc = "liveness"]]
  /\ UNCHANGED <<files, svc, probe, students, vectors, id_map, ledger, clock>>

\* WebLiveness answering a spoof with a fixed message instead of the
\* verifier's reason
WebLiveness_FixedMessage(a) ==
  /\ att[a].pc = "liveness" /\ att[a].entry = "web"
  /\ \E m \in Bundles, fault \in BOOLEAN :
       LET v == AnalyzeFrames(FullBatch, FullBatch, m)
       IN  att' = [att EXCEPT ![a] =
             IF fault
               THEN WebExcept(@, MsgCv)
             ELSE IF ~v.is_live
               THEN [Respond(@, 400, <<"Liveness check failed">>) EXCEPT
                       !.live = "spoof", !.vreason = v.reason]
             ELSE [@ EXCEPT !.pc = "recognize", !.live = "live",
                            !.passed = Append(@, "liveness")]]
  /\ UNCHANGED <<files, svc, probe, students, vectors, id_map, ledger, clock>>

\* liveness check
WebLiveness(a) ==
  /\ att[a].pc = "liveness" /\ att[a].entry = "web"
  /\ \E m \in Bundles, fault \in BOOLEAN :
       LET v == AnalyzeFrames(FullBatch, FullBatch, m)
       IN  att' = [att EXCEPT ![a] =
             IF fault
               THEN WebExcept(@, MsgCv)
             ELSE IF ~v.is_live
               THEN [Respond(@, 400, v.reason) EXCEPT
                       !.live = "spoof", !.vreason = v.reason]
             ELSE [@ EXCEPT !.pc = "recognize", !.live = "live",
                            !.passed = Append(@, "liveness")]]
  /\ UNCHANGED <<files, svc, probe, students, vectors, id_map, ledger, clock>>

\* embedding extraction, identity match and subject lookup
WebRecognize(a) ==
  /\ att[a].pc = "recognize" /\ att[a].entry = "web"
  /\ \E embeddings \in {<<>>} \cup {<<e>> : e \in Emb},
        fault \in {"none", "extract", "lookup"} :
       LET r == att[a]
           m == FindMatch(vectors, id_map, embeddings[1])
           student_id == IntOf(m.key)
           r1 == [r EXCEPT !.passed = Append(@, "embedding")]
           r2 == [r1 EXCEPT !.passed = Append(@, "match"),
                            !.sid = student_id, !.dist = m.dist]
       IN  att' = [att EXCEPT ![a] =
             IF fault = "extract"
               THEN WebExcept(r, MsgModel)
             ELSE IF embeddings = <<>>
               THEN Respond(r, 400, <<"No face detected in frames">>)
             ELSE IF m.kind = "IndexError"
               THEN WebExcept(r1, MsgIndexError)
             ELSE IF m.kind # "match"
               THEN Respond(r1, 400, <<"Face not recognized. Please enroll first.">>)
             ELSE IF fault = "lookup"
               THEN WebExcept(r2, MsgDb)
             ELSE IF ~GetStudentById(students, student_id)
               THEN [Respond(r2, 400, <<"Student record not found">>)
                       EXCEPT !.subject = "missing"]
             ELSE [r2 EXCEPT !.pc = "duplicate", !.subject = "found",
                             !.passed = Append(@, "subject")]]
  /\ UNCHANGED <<files, svc, probe, students, vectors, id_map, ledger, clock>>

\* WebDuplicateCheck going on to the write whatever the lookup returns
WebDuplicateCheck_Ignored(a) ==
  /\ att[a].pc = "duplicate" /\ att[a].entry = "web"
  /\ \E fault \in BOOLEAN :
       LET today == DateOf(clock)
       IN  att' = [att EXCEPT ![a] =
             IF fault
               THEN WebExcept(@, MsgDb)
             ELSE [@ EXCEPT !.pc = "write", !.day = today,
                            !.passed = Append(@, "duplicate")]]
  /\ UNCHANGED <<files, svc, probe, students, vectors, id_map, ledger, clock>>

\* check if already marked today
WebDuplicateCheck(a) ==
  /\ att[a].pc = "duplicate" /\ att[a].entry = "web"
  /\ \E fault \in BOOLEAN :
       LET today == DateOf(clock)
           existing_record == GetAttendanceRecord(ledger, att[a].sid, today)
       IN  att' = [att EXCEPT ![a] =
             IF fault
               THEN WebExcept(@, MsgDb)
             ELSE IF existing_record # 0
               THEN Respond([@ EXCEPT !.day = today], 400,
                            <<"Attendance already marked for", "today at",
                              StrfTime(ledger[existing_record].timestamp)>>)
             ELSE [@ EXCEPT !.pc = "write", !.day = today,
                            !.passed = Append(@, "duplicate")]]
  /\ UNCHANGED <<files, svc, probe, students, vectors, id_map, ledger, clock>>

\* mark attendance and build the response.  mark_attendance commits, which
\* expires the loaded student row (the session keeps expire_on_commit), so
\* student.name in the lines after it reloads the row: "commit" is an
\* exception of the commit, "refresh" one of that reload.
WebLedgerWrite(a) ==
  /\ att[a].pc = "write" /\ att[a].entry = "web"
  /\ \E fault \in {"none", "commit", "refresh"} :
       IF fault = "commit"
         THEN /\ att' = [att EXCEPT ![a] = WebExcept(@, MsgDb)]
              /\ UNCHANGED ledger
         ELSE /\ ledger' = MarkAttendance(ledger, att[a].sid,
                                          ConfidenceFromDistance(att[a].dist), clock)
              /\ att' = [att EXCEPT ![a] =
                   LET r == [@ EXCEPT !.wrote = @ + 1]
                   IN  IF fault = "refresh"
                         THEN WebExcept(r, MsgDb)
                         ELSE Respond(r, 200, <<"Attendance marked successfully!">>)]
  /\ UNCHANGED <<files, svc, probe, students, vectors, id_map, clock>>

\* the wall clock advances
Tick ==
  /\ clock < MaxClock
  /\ clock' = clock + 1
  /\ UNCHANGED <<files, svc, probe, students, vectors, id_map, ledger, att>>

(***************************************************************************)
(* The stores as a starting process finds them.  The database is the file  *)
(* data/attendance.db under the working directory, the index and the id    *)
(* map are two files under the home directory, each loaded if it exists,   *)
(* independently of the other and of the database:                         *)
(*   Fresh      nothing enrolled                                           *)
(*   Enrolled   student 1 enrolled with embedding 0                        *)
(*   TwoKeys    students 1 and 2 enrolled with embeddings 0 and 2          *)
(*   Orphaned   the index of Enrolled beside a new, empty database         *)
(*   Desynced   the index file of Enrolled without its id map file         *)
(***************************************************************************)
StartingStores ==
  {[students |-> <<>>, vectors |-> <<>>, id_map |-> <<>>],
   [students |-> <<1>>, vectors |-> <<0>>, id_map |-> <<Str(1)>>],
   [students |-> <<1, 2>>, vectors |-> <<0, 2>>, id_map |-> <<Str(1), Str(2)>>],
   [students |-> <<>>, vectors |-> <<0>>, id_map |-> <<Str(1)>>],
   [students |-> <<1>>, vectors |-> <<0>>, id_map |-> <<>>]}

Init ==
  /\ \E st \in StartingStores :
       /\ students = st.students
       /\ files = StoredAs(st.vectors, st.id_map)
  /\ vectors = LoadIndex(files).vectors
  /\ id_map = LoadIndex(files).id_map
  /\ svc = ReadyService
  /\ probe = NoProbe
  /\ ledger = <<>>
  /\ clock = 0
  /\ att = [a \in Attempts |-> IdleAttempt]

Next ==
  \/ \E a \in Attempts : WebValidate(a)
  \/ \E a \in Attempts : WebLiveness(a)
  \/ \E a \in Attempts : WebRecognize(a)
  \/ \E a \in Attempts : WebDuplicateCheck(a)
  \/ \E a \in Attempts : WebLedgerWrite(a)
  \/ Tick

Spec == Init /\ [][Next]_vars


(***************************************************************************)
(* Flash liveness of the command-line program:                             *)
(* services/flash_liveness_service.py.  mean_delta is in hundredths,       *)
(* nonuniformity in tenths, -1 standing for None.                          *)
(***************************************************************************)
FLASH_MAX_NONUNIFORMITY == 30
FLASH_MAX_MEAN == 50

\* what the camera and the flash sequence yield
FlashSamples ==
  {[ret |-> FALSE, face |-> FALSE, mean_delta |-> -1, nonuniformity |-> -1],
   [ret |-> TRUE, face |-> FALSE, mean_delta |-> -1, nonuniformity |-> -1],
   [ret |-> TRUE, face |-> TRUE, mean_delta |-> -1, nonuniformity |-> -1],
   [ret |-> TRUE, face |-> TRUE, mean_delta |-> 20, nonuniformity |-> 10],
   [ret |-> TRUE, face |-> TRUE, mean_delta |-> 80, nonuniformity |-> 10],
   [ret |-> TRUE, face |-> TRUE, mean_delta |-> 20, nonuniformity |-> 40]}

\* verify_liveness(cap): the boolean it returns and the line it prints
VerifyLiveness(s) ==
  IF ~s.ret
    THEN [is_live |-> FALSE, printed |-> <<"Unable to read frame for liveness check.">>]
  ELSE IF ~s.face
    THEN [is_live |-> FALSE, printed |-> <<"No face detected for liveness test.">>]
  ELSE IF s.mean_delta = -1
    THEN [is_live |-> FALSE, printed |-> <<"Could not compute liveness metrics (None).">>]
  ELSE LET is_live == s.nonuniformity <= FLASH_MAX_NONUNIFORMITY
                      /\ s.mean_delta <= FLASH_MAX_MEAN
       IN  [is_live |-> is_live,
            printed |-> <<"Liveness", IF is_live THEN "LIVE" ELSE "SPOOF">>]

(***************************************************************************)
(* The command-line program main.py: attendance_flow, one action per       *)
(* stage, and enroll_flow.  Its loop runs one flow at a time, so attempt   *)
(* a starts when the attempts before it are over.  An exception is caught  *)
(* nowhere: it leaves attendance_flow and main.                            *)
(***************************************************************************)
CliBusy == \E b \in Attempts : att[b].entry = "cli" /\ att[b].pc # "done"

\* return after a printed message
CliReturn(r, outcome, message) ==
  [r EXCEPT !.pc = "done", !.dist = -1, !.outcome = outcome,
            !.reason = message]

\* an exception propagating out of attendance_flow
CliRaise(r, message) ==
  [r EXCEPT !.pc = "done", !.dist = -1, !.outcome = "Escaped",
            !.reason = message, !.raised = TRUE]

\* liveness check
CliLiveness(a) ==
  /\ att[a].pc = "idle" /\ \A b \in 1..(a - 1) : att[b].pc = "done"
  /\ \E s \in FlashSamples, fault \in BOOLEAN :
       LET r == [att[a] EXCEPT !.entry = "cli"]
           v == VerifyLiveness(s)
       IN  att' = [att EXCEPT ![a] =
             IF fault
               THEN CliRaise(r, MsgCv)
             ELSE IF ~v.is_live
               THEN [CliReturn(r, "Rejected", <<"Liveness failed. Attendance not marked.">>)
                       EXCEPT !.live = "spoof", !.vreason = v.printed]
             ELSE [r EXCEPT !.pc = "recognize", !.live = "live",
                            !.passed = Append(@, "liveness")]]
  /\ UNCHANGED <<files, svc, probe, students, vectors, id_map, ledger, clock>>

\* fresh frame, embedding extraction, identity match and subject lookup
CliRecognize(a) ==
  /\ att[a].pc = "recognize" /\ att[a].entry = "cli"
  /\ \E ret \in BOOLEAN, embeddings \in {<<>>} \cup {<<e>> : e \in Emb},
        fault \in {"none", "extract", "lookup"} :
       LET r == att[a]
           m == FindMatch(vectors, id_map, embeddings[1])
           student_key == IntOf(m.key)
           r1 == [r EXCEPT !.passed = Append(@, "embedding")]
           r2 == [r1 EXCEPT !.passed = Append(@, "match"),
                            !.sid = student_key, !.dist = m.dist]
       IN  att' = [att EXCEPT ![a] =
             IF ~ret
               THEN CliReturn(r, "Rejected", <<"Failed to capture frame after liveness check.">>)
             ELSE IF fault = "extract"
               THEN CliRaise(r, MsgModel)
             ELSE IF embeddings = <<>>
               THEN CliReturn(r, "Rejected", <<"No face detected after liveness check. Try again.">>)
             ELSE IF m.kind = "IndexError"
               THEN CliRaise(r1, MsgIndexError)
             ELSE IF m.kind # "match"
               THEN CliReturn(r1, "Rejected", <<"No match found in database.">>)
             ELSE IF fault = "lookup"
               THEN CliRaise(r2, MsgDb)
             ELSE IF ~GetStudentById(students, student_key)
               THEN [r2 EXCEPT !.pc = "write", !.subject = "missing"]
             ELSE [r2 EXCEPT !.pc = "write", !.subject = "found",
                             !.passed = Append(@, "subject")]]
  /\ UNCHANGED <<files, svc, probe, students, vectors, id_map, ledger, clock>>

\* mark attendance, for student.id or for the raw matched id, and print the
\* result; the faults are those of WebLedgerWrite
CliLedgerWrite(a) ==
  /\ att[a].pc = "write" /\ att[a].entry = "cli"
  /\ \E fault \in {"none", "commit", "refresh"} :
       IF fault = "commit"
         THEN /\ att' = [att EXCEPT ![a] = CliRaise(@, MsgDb)]
              /\ UNCHANGED ledger
         ELSE /\ ledger' = MarkAttendance(ledger, att[a].sid,
                                          ConfidenceFromDistance(att[a].dist), clock)
              /\ att' = [att EXCEPT ![a] =
                   LET r == [@ EXCEPT !.wrote = @ + 1]
                   IN  IF fault = "refresh" /\ r.subject = "found"
                         THEN CliRaise(r, MsgDb)
                         ELSE CliReturn(r, "Accepted", <<"Attendance marked for">>)]
  /\ UNCHANGED <<files, svc, probe, students, vectors, id_map, clock>>

\* add_to_index(embedding, student_id): append to both and save
AddToIndex(vecs, idmap, embedding, student_id) ==
  [vectors |-> Append(vecs, embedding), id_map |-> Append(idmap, Str(student_id))]

\* enroll_flow: enrol the face of the current frame under a new roll
\* number; also what attendance_flow calls when the operator answers 'y'
\* after "No match found"
EnrollFlow ==
  /\ ~CliBusy
  /\ NextStudentId(students) <= MaxKey
  /\ Len(vectors) < MaxIndex
  /\ \E roll \in Keys, emb \in Emb :
       /\ ~GetStudentByRoll(students, roll)
       /\ students' = EnrollStudent(students, roll)
       /\ LET ix == AddToIndex(vectors, id_map, emb, NextStudentId(students))
          IN  /\ vectors' = ix.vectors
              /\ id_map' = ix.id_map
              /\ files' = SaveIdMap(SaveIndex(files, ix.vectors), ix.id_map)
  /\ UNCHANGED <<ledger, clock, att, svc, probe>>

NextCli ==
  \/ \E a \in Attempts : CliLiveness(a)
  \/ \E a \in Attempts : CliRecognize(a)
  \/ \E a \in Attempts : CliLedgerWrite(a)
  \/ EnrollFlow
  \/ Tick

SpecCli == Init /\ [][NextCli]_vars

(***************************************************************************)
(* The identity index over the life of its files: a program that holds the *)
(* service adds embeddings (add_to_index appends in memory, then           *)
(* _save_index writes the index file and after it the id map file), may    *)
(* stop at any point and start again (_load_index), and answers            *)
(* find_match; the script reset_system.py runs beside it as a process of   *)
(* its own.  The two files reset_embeddings names are there at the start,  *)
(* left by an older layout.                                                *)
(***************************************************************************)
InitIndex ==
  /\ students = <<>>
  /\ ledger = <<>>
  /\ clock = 0
  /\ att = [a \in Attempts |-> IdleAttempt]
  /\ probe = NoProbe
  /\ files = [p \in Paths |->
                IF p \in {ResetPaths[1], ResetPaths[2]} THEN FileOf(<<>>) ELSE NoFile]
  /\ vectors = <<>>
  /\ id_map = <<>>
  /\ svc = ReadyService

\* add_to_index(embedding, student_id), up to the call of _save_index
IndexAdd ==
  /\ svc.pc = "ready"
  /\ Len(svc.log) < MaxIndex
  /\ \E embedding \in Emb, student_id \in Keys :
       LET ix == AddToIndex(vectors, id_map, embedding, student_id)
       IN  /\ vectors' = ix.vectors
           /\ id_map' = ix.id_map
           /\ svc' = [svc EXCEPT !.pc = "save_index", !.q = -1,
                                 !.result = NoResult, !.prev = NoResult,
                                 !.log = Append(@, <<embedding, Str(student_id)>>)]
  /\ UNCHANGED <<students, ledger, clock, att, files, probe>>

\* _save_index: faiss.write_index(self.index, self.index_path)
IndexSaveIndex ==
  /\ svc.pc = "save_index"
  /\ files' = SaveIndex(files, vectors)
  /\ svc' = [svc EXCEPT !.pc = "save_id_map"]
  /\ UNCHANGED <<students, vectors, id_map, ledger, clock, att, probe>>

\* _save_index: pickle.dump(self.id_map, f)
IndexSaveIdMap ==
  /\ svc.pc = "save_id_map"
  /\ files' = SaveIdMap(files, id_map)
  /\ svc' = [svc EXCEPT !.pc = "ready"]
  /\ UNCHANGED <<students, vectors, id_map, ledger, clock, att, probe>>

\* the process is killed or the machine stops: the memory is lost, the
\* files stay
Crash ==
  /\ svc.pc # "down"
  /\ vectors' = <<>>
  /\ id_map' = <<>>
  /\ svc' = [svc EXCEPT !.pc = "down", !.q = -1, !.result = NoResult,
                        !.prev = NoResult]
  /\ UNCHANGED <<students, ledger, clock, att, files, probe>>

\* FaceRecognitionService(): _load_index()
Start ==
  /\ svc.pc = "down"
  /\ vectors' = LoadIndex(files).vectors
  /\ id_map' = LoadIndex(files).id_map
  /\ svc' = [svc EXCEPT !.pc = "ready"]
  /\ UNCHANGED <<students, ledger, clock, att, files, probe>>

\* a find_match that keeps what it matched: the probe is added to the index
\* under the key it was matched to
Query_Learning ==
  /\ svc.pc = "ready"
  /\ \E embedding \in Emb :
       LET m == FindMatch(vectors, id_map, embedding)
       IN  /\ svc' = [svc EXCEPT !.q = embedding, !.result = m,
                                 !.prev = IF svc.q = embedding THEN svc.result
                                          ELSE NoResult]
           /\ vectors' = IF m.kind = "match" /\ Len(vectors) < MaxIndex + 1
                            THEN Append(vectors, embedding) ELSE vectors
           /\ id_map' = IF m.kind = "match" /\ Len(vectors) < MaxIndex + 1
                           THEN Append(id_map, m.key) ELSE id_map
  /\ UNCHANGED <<students, ledger, clock, att, files, probe>>

\* find_match(embedding) on the index in memory
Query ==
  /\ svc.pc = "ready"
  /\ \E embedding \in Emb :
       svc' = [svc EXCEPT !.q = embedding,
                          !.result = FindMatch(vectors, id_map, embedding),
                          !.prev = IF svc.q = embedding THEN svc.result
                                   ELSE NoResult]
  /\ UNCHANGED <<students, vectors, id_map, ledger, clock, att, files, probe>>

\* reset_embeddings(): one turn of `for p in paths`
ResetEmbeddings ==
  /\ svc.reset < Len(ResetPaths)
  /\ files' = RemoveFile(files, ResetPaths[svc.reset + 1])
  /\ svc' = [svc EXCEPT !.reset = @ + 1]
  /\ UNCHANGED <<students, vectors, id_map, ledger, clock, att, probe>>

NextIndex ==
  \/ IndexAdd
  \/ IndexSaveIndex
  \/ IndexSaveIdMap
  \/ Crash
  \/ Start
  \/ Query
  \/ ResetEmbeddings

SpecIndex == InitIndex /\ [][NextIndex]_vars

(***************************************************************************)
(* Enrollment and the administrative resets.  An enrollment (the route     *)
(* enroll_student of app.py, enroll_flow of main.py) commits the Student   *)
(* row and after it calls add_to_index; it can fail or the process can     *)
(* stop between the two.  reset_system.py runs beside the program.  The    *)
(* files the resets name are there at the start, left by an older layout.  *)
(***************************************************************************)
InitAdmin ==
  /\ students = <<>>
  /\ ledger = <<>>
  /\ clock = 0
  /\ att = [a \in Attempts |-> IdleAttempt]
  /\ probe = NoProbe
  /\ files = [p \in Paths |->
                IF p \in {ResetPaths[1], ResetPaths[2], db_path}
                  THEN FileOf(<<>>) ELSE NoFile]
  /\ vectors = <<>>
  /\ id_map = <<>>
  /\ svc = ReadyService

\* student.id of the row enroll_student has just committed
LastStudentId(studs) == NextStudentId(studs) - 1

\* student = db_service.enroll_student(...): the row is committed
AdminEnrollStudent ==
  /\ svc.pc = "ready"
  /\ NextStudentId(students) <= MaxKey
  /\ Len(vectors) < MaxIndex
  /\ \E roll \in Keys :
       /\ ~GetStudentByRoll(students, roll)
       /\ students' = EnrollStudent(students, roll)
  /\ svc' = [svc EXCEPT !.pc = "add_to_index", !.q = -1, !.result = NoResult,
                        !.prev = NoResult]
  /\ UNCHANGED <<vectors, id_map, ledger, clock, att, files, probe>>

\* face_service.add_to_index(embedding, student.id), up to _save_index
AdminAddToIndex ==
  /\ svc.pc = "add_to_index"
  /\ \E embedding \in Emb :
       LET ix == AddToIndex(vectors, id_map, embedding, LastStudentId(students))
       IN  /\ vectors' = ix.vectors
           /\ id_map' = ix.id_map
           /\ svc' = [svc EXCEPT !.pc = "save_index",
                        !.log = Append(@, <<embedding, Str(LastStudentId(students))>>)]
  /\ UNCHANGED <<students, ledger, clock, att, files, probe>>

\* an exception after the commit and before the insertion: the route
\* answers 500, the row stays
AdminEnrollFails ==
  /\ svc.pc = "add_to_index"
  /\ svc' = [svc EXCEPT !.pc = "ready"]
  /\ UNCHANGED <<students, vectors, id_map, ledger, clock, att, files, probe>>

\* reset_database() removing the file the engine opened
ResetDatabase_LiveFile ==
  /\ files[db_path].exists
  /\ files' = RemoveFile(files, db_path)
  /\ students' = <<>>
  /\ ledger' = <<>>
  /\ UNCHANGED <<vectors, id_map, clock, att, svc, probe>>

\* reset_database(): os.remove(db_path) if it exists; the tables go with
\* the file only if it is the file the engine opened
ResetDatabase ==
  /\ files[db_path].exists
  /\ files' = RemoveFile(files, db_path)
  /\ students' = IF db_path = database_url THEN <<>> ELSE students
  /\ ledger' = IF db_path = database_url THEN <<>> ELSE ledger
  /\ UNCHANGED <<vectors, id_map, clock, att, svc, probe>>

NextAdmin ==
  \/ AdminEnrollStudent
  \/ AdminAddToIndex
  \/ AdminEnrollFails
  \/ IndexSaveIndex
  \/ IndexSaveIdMap
  \/ Crash
  \/ Start
  \/ ResetEmbeddings
  \/ ResetDatabase

SpecAdmin == InitAdmin /\ [][NextAdmin]_vars

(***************************************************************************)
(* The Pinecone variant of the identity index: src/pinecone_manager.py.    *)
(* The Pinecone index keeps one vector per id; here vectors[k] is the      *)
(* vector stored under the id id_map[k], the ids in the order they first   *)
(* came.  svc.log lists the (embedding, id) pairs handed to the index.     *)
(***************************************************************************)
\* the position of the id in the index, 0 when it holds no such id
PositionOf(idmap, id) ==
  IF \E k \in 1..Len(idmap) : idmap[k] = id
    THEN CHOOSE k \in 1..Len(idmap) : idmap[k] = id
    ELSE 0

\* index.upsert([(str(student_id), embedding.tolist())]): a vector under a
\* new id is added, a vector under an id the index holds takes the place
\* of the one stored
Upsert(vecs, idmap, student_id, embedding) ==
  LET k == PositionOf(idmap, Str(student_id))
  IN  IF k = 0
        THEN [vectors |-> Append(vecs, embedding),
              id_map |-> Append(idmap, Str(student_id))]
        ELSE [vectors |-> [vecs EXCEPT ![k] = embedding], id_map |-> idmap]

\* index.delete(ids=[str(student_id)])
Delete(vecs, idmap, student_id) ==
  LET k == PositionOf(idmap, Str(student_id))
      Keep == {i \in 1..Len(idmap) : i # k}
      At(n) == CHOOSE i \in Keep : Cardinality({j \in Keep : j < i}) = n - 1
  IN  [vectors |-> [n \in 1..Cardinality(Keep) |-> vecs[At(n)]],
       id_map |-> [n \in 1..Cardinality(Keep) |-> idmap[At(n)]]]

InitPinecone ==
  /\ students = <<>>
  /\ ledger = <<>>
  /\ clock = 0
  /\ att = [a \in Attempts |-> IdleAttempt]
  /\ probe = NoProbe
  /\ files = StoredAs(<<>>, <<>>)
  /\ vectors = <<>>
  /\ id_map = <<>>
  /\ svc = ReadyService

\* add_student_vector(student_id, embedding)
AddStudentVector ==
  /\ Len(svc.log) < MaxIndex
  /\ \E student_id \in Keys, embedding \in Emb :
       LET ix == Upsert(vectors, id_map, student_id, embedding)
       IN  /\ vectors' = ix.vectors
           /\ id_map' = ix.id_map
           /\ svc' = [svc EXCEPT !.log = Append(@, <<embedding, Str(student_id)>>)]
  /\ UNCHANGED <<students, ledger, clock, att, files, probe>>

\* update_student_vector(student_id, embedding)
UpdateStudentVector ==
  /\ Len(svc.log) < MaxIndex
  /\ \E student_id \in Keys, embedding \in Emb :
       LET ix == Upsert(vectors, id_map, student_id, embedding)
       IN  /\ vectors' = ix.vectors
           /\ id_map' = ix.id_map
           /\ svc' = [svc EXCEPT !.log = Append(@, <<embedding, Str(student_id)>>)]
  /\ UNCHANGED <<students, ledger, clock, att, files, probe>>

\* delete_student_vector(student_id)
DeleteStudentVector ==
  /\ \E student_id \in Keys :
       LET ix == Delete(vectors, id_map, student_id)
       IN  /\ vectors' = ix.vectors
           /\ id_map' = ix.id_map
  /\ UNCHANGED <<students, ledger, clock, att, files, probe, svc>>

NextPinecone ==
  \/ AddStudentVector
  \/ UpdateStudentVector
  \/ DeleteStudentVector

SpecPinecone == InitPinecone /\ [][NextPinecone]_vars

(***************************************************************************)
(* The in-memory ledger: services/attendance_manager.py.  self.records is  *)
(* a dictionary from a student id to the time of the mark; here the ledger *)
(* lists its items in the order of the dictionary.  The class looks at no  *)
(* roster, so the id is whatever the caller hands over.                    *)
(***************************************************************************)
ManagerIds == 0..(MaxKey + 1)

\* self.records[student_id] = now
SetRecord(ldg, student_id, now) ==
  IF \E i \in 1..Len(ldg) : ldg[i].student_id = student_id
    THEN [i \in 1..Len(ldg) |->
            IF ldg[i].student_id = student_id
              THEN [student_id |-> student_id, timestamp |-> now]
              ELSE ldg[i]]
    ELSE Append(ldg, [student_id |-> student_id, timestamp |-> now])

InitManager ==
  /\ students = <<>>
  /\ files = StoredAs(<<>>, <<>>)
  /\ vectors = <<>>
  /\ id_map = <<>>
  /\ svc = ReadyService
  /\ probe = NoProbe
  /\ ledger = <<>>
  /\ clock = 0
  /\ att = [a \in Attempts |-> IdleAttempt]

\* AttendanceManager.mark_attendance(student_id)
ManagerMarkAttendance ==
  /\ \E student_id \in ManagerIds :
       ledger' = SetRecord(ledger, student_id, clock)
  /\ UNCHANGED <<students, vectors, id_map, clock, att, files, svc, probe>>

NextManager ==
  \/ ManagerMarkAttendance
  \/ Tick

SpecManager == InitManager /\ [][NextManager]_vars

(***************************************************************************)
(* The verifier called on its own: analyze_frames applied to two batches   *)
(* and to what their frames measure.  The measurements lie on a grid that  *)
(* has a value on each side of every threshold of the verifier.            *)
(***************************************************************************)
MetricGrid ==
  [brightness_change_percent : {0, 25, 60, 120, 135},
   color_variance : {2100, 2400, 2700, 4000},
   edge_density : {0, 600, 620, 700},
   uniformity : {400, 450, 520, 700},
   nonuniformity : {0, 40, 50, 70},
   mean_delta : {5, 7, 8, 15, 30}]

Batches ==
  {[n |-> 0, none |-> FALSE], FullBatch, [n |-> FRAME_COUNT, none |-> TRUE]}

InitVerifier ==
  /\ students = <<>>
  /\ files = StoredAs(<<>>, <<>>)
  /\ vectors = <<>>
  /\ id_map = <<>>
  /\ svc = ReadyService
  /\ ledger = <<>>
  /\ clock = 0
  /\ att = [a \in Attempts |-> IdleAttempt]
  /\ \E before \in Batches, after \in Batches, x \in MetricGrid :
       probe = [before |-> before, after |-> after, x |-> x, result |-> NoVerdict]

\* is_live, metrics, fail_reason = detector.analyze_frames(before, after)
DirectAnalyze ==
  /\ probe.result.kind = "unset"
  /\ probe' = [probe EXCEPT !.result = AnalyzeFrames(probe.before, probe.after, probe.x)]
  /\ UNCHANGED <<students, vectors, id_map, ledger, clock, att, files, svc>>

NextVerifier == DirectAnalyze

SpecVerifier == InitVerifier /\ [][NextVerifier]_vars

(***************************************************************************)
(* Claims                                                                  *)
(***************************************************************************)
SameSubjectAndDay(e1, e2) ==
  e1.student_id = e2.student_id /\ DateOf(e1.timestamp) = DateOf(e2.timestamp)

Done(a) == att[a].pc = "done"

ReasonAlreadyMarked(r) ==
  Len(r.reason) > 0 /\ r.reason[1] = "Attendance already marked for"

\* C1: in every reachable state the ledger holds at most one attendance
\* event for any (subject key, calendar day), whatever the interleaving of
\* the attempts' duplicate checks and ledger writes.
C1_AtMostOneEventPerSubjectDay ==
  \A i \in 1..Len(ledger) : \A j \in 1..Len(ledger) :
    i < j => ~SameSubjectAndDay(ledger[i], ledger[j])

\* the attempts that issued a mark for subject k on day d: they evaluated the
\* duplicate check for k on d
Markers(k, d) == {a \in Attempts : att[a].sid = k /\ att[a].day = d}

\* C2: when the attempts that issue a mark for one subject key on one
\* calendar day have all run to completion (none of them hit an exception
\* and the day has not ended), exactly one of them is Accepted and every
\* other one is rejected as a duplicate.
C2_ExactlyOneAcceptedPerSubjectDay ==
  \A k \in Keys :
    LET M == Markers(k, 0)
    IN  (/\ DateOf(clock) = 0
         /\ M # {}
         /\ \A a \in M : Done(a) /\ ~att[a].raised)
        => /\ Cardinality({a \in M : att[a].outcome = "Accepted"}) = 1
           /\ \A a \in M : att[a].outcome # "Accepted"
                => att[a].outcome = "Rejected" /\ ReasonAlreadyMarked(att[a])

\* C3: mark is check-then-act: a step that inserts an event for a subject
\* key does so only if the ledger held no event of that key on the calendar
\* day of the new event's timestamp; this holds for every caller.
C3_MarkRefusesDuplicate ==
  [][Len(ledger') > Len(ledger)
       => ~IsAttendanceMarkedToday(ledger, ledger'[Len(ledger')].student_id,
                                   DateOf(ledger'[Len(ledger')].timestamp))]_vars

Finishes(a) == att[a].pc # "done" /\ att'[a].pc = "done"

\* C5: an attempt that ends Accepted has added exactly one event, for the
\* accepted subject, to the ledger; an attempt that ends with any Rejected
\* outcome has left the ledger as it was; nothing else changes the ledger.
C5_WriteIffAccepted ==
  [][/\ \A a \in Attempts :
          Finishes(a) /\ att'[a].outcome = "Accepted"
            => /\ Len(ledger') = Len(ledger) + 1
               /\ SubSeq(ledger', 1, Len(ledger)) = ledger
               /\ ledger'[Len(ledger')].student_id = att'[a].sid
     /\ \A a \in Attempts :
          Finishes(a) /\ att'[a].outcome = "Rejected" => ledger' = ledger
     /\ ledger' # ledger
          => \E a \in Attempts : Finishes(a) /\ att'[a].outcome = "Accepted"]_vars

\* C6: an attempt writes to the ledger only after it passed, in this order,
\* the liveness check, embedding extraction, the identity match, the subject
\* lookup and the duplicate check.
C6_WriteOnlyAfterAllStages ==
  \A a \in Attempts :
    att[a].wrote > 0
      => att[a].passed = <<"liveness", "embedding", "match", "subject", "duplicate">>

NotRecognizedReasons ==
  {<<"Face not recognized. Please enroll first.">>, <<"No match found in database.">>}

\* C7: an attempt whose matched subject key resolves to no Subject record
\* ends Rejected with a reason of its own, distinct from "not recognized",
\* and writes no event.
C7_MissingSubjectRejected ==
  \A a \in Attempts :
    (Done(a) /\ att[a].subject = "missing" /\ ~att[a].raised)
      => /\ att[a].outcome = "Rejected"
         /\ att[a].reason # <<>>
         /\ att[a].reason \notin NotRecognizedReasons
         /\ att[a].wrote = 0

C9_EveryAttemptClassified ==
  \A a \in Attempts :
    Done(a)
      => /\ att[a].outcome \in {"Accepted", "Rejected"}
         /\ att[a].outcome = "Rejected" => att[a].reason # <<>>

\* the messages of the normal negative outcomes
NormalNegative(r) ==
  \/ r.live = "spoof"
  \/ r.reason \in NotRecognizedReasons
  \/ r.reason \in {<<"No face detected in frames">>, <<"Student record not found">>}
  \/ ReasonAlreadyMarked(r)

\* the error outcomes: the 500 response carrying str(e), and the decode
\* failure response
InputErrorOutcome(r) ==
  /\ r.outcome = "Rejected"
  /\ r.reason # <<>>
  /\ r.status = 500 \/ r.reason = <<"Failed to decode one or more frames">>

\* C10: an exception raised by a stage of the web pipeline is caught inside
\* it and ends the attempt with an error outcome; it does not escape and is
\* not reported as one of the normal negative outcomes.
C10_ExceptionsClassified ==
  \A a \in Attempts :
    att[a].raised
      => Done(a) /\ InputErrorOutcome(att[a]) /\ ~NormalNegative(att[a])

C10_Witness ==
  \E a \in Attempts, b \in Attempts :
    /\ att[a].raised /\ att[a].status = 500 /\ Done(a)
    /\ att[b].raised /\ att[b].status = 400 /\ Done(b)

\* the metrics the probed call computed, and whether it gave a verdict
Probed == Measure(probe.before, probe.after, probe.x)
GaveVerdict == probe.result.kind = "verdict"

HardFailCrossed(m) ==
  \/ Gt(m.edge_density, HARD_FAIL_EDGE_DENSITY)
  \/ Lt(m.color_variance, HARD_FAIL_LOW_VARIANCE)
  \/ Gt(m.nonuniformity, HARD_FAIL_NONUNIFORMITY)

\* C11: for every metric bundle, when a hard-fail threshold is crossed
\* (edge density above its bound, colour variance below its floor or
\* nonuniformity above its bound) the verifier answers is_live = false,
\* whatever the other metrics are.
C11_HardFailNeverLive ==
  GaveVerdict /\ HardFailCrossed(Probed) => ~probe.result.is_live

\* a refresh-pattern hard fail on a bundle whose other five metrics each
\* take their best value
C11_Witness ==
  /\ GaveVerdict /\ ~probe.result.is_live
  /\ probe.before = FullBatch /\ probe.after = FullBatch
  /\ probe.x = [brightness_change_percent |-> 60, color_variance |-> 4000,
                edge_density |-> 0, uniformity |-> 700, nonuniformity |-> 70,
                mean_delta |-> 15]

BrightnessOutsideEnvelope(m) ==
  \/ Lt(m.brightness_change_percent, MIN_BRIGHTNESS_CHANGE)
  \/ Gt(m.brightness_change_percent, MAX_BRIGHTNESS_CHANGE)

\* C12: a brightness change below MIN_BRIGHTNESS_CHANGE or above
\* MAX_BRIGHTNESS_CHANGE is a hard fail: the verifier answers is_live =
\* false with a reason, whatever the scores of the other metrics.
C12_BrightnessEnvelopeHardFail ==
  GaveVerdict /\ BrightnessOutsideEnvelope(Probed)
    => ~probe.result.is_live /\ probe.result.reason # <<>>

ScoreNames ==
  {"brightness", "variance", "edges", "uniformity", "nonuniformity", "mean_delta"}

\* C13: when no hard-fail threshold is crossed the verifier answers
\* is_live = true exactly when the six scores sum to MIN_TOTAL_SCORE or
\* more; each score lies in [0, 1], so the sum is at most 6.
C13_LiveIffTotalReachesMinimum ==
  GaveVerdict /\ ~HardFailCrossed(Probed)
    => /\ DOMAIN probe.result.scores = ScoreNames
       /\ \A k \in ScoreNames :
            0 <= probe.result.scores[k] /\ probe.result.scores[k] <= 6000
       /\ SumScores(probe.result.scores) <= 6 * 6000
       /\ probe.result.is_live
            <=> SumScores(probe.result.scores) >= MIN_TOTAL_SCORE

\* a live verdict whose variance score sits at the cap
C13_Witness ==
  /\ GaveVerdict /\ ~HardFailCrossed(Probed) /\ probe.result.is_live
  /\ probe.x.color_variance = 4000
  /\ probe.result.scores.variance = 6000
  /\ SumScores(probe.result.scores) < 6 * 6000

\* C14: the reason is non-empty whenever is_live = false, on the hard-fail
\* paths and on the low-score paths, and empty whenever is_live = true.
C14_ReasonIffNotLive ==
  GaveVerdict => (probe.result.is_live <=> probe.result.reason = <<>>)

\* a low-score rejection of a bundle no check gave a reason for
C14_Witness ==
  /\ GaveVerdict /\ ~probe.result.is_live /\ ~probe.result.hard
  /\ ScoreReasons(Probed) = <<>>
  /\ probe.result.reason = <<"Low confidence">>

\* C15: an attempt whose before batch or after batch does not hold exactly
\* FRAME_COUNT frames is rejected for that before the liveness verifier
\* runs: it gets no liveness verdict and writes nothing to the ledger.
C15_MiscountedBatchRejected ==
  \A a \in Attempts :
    att[a].frames = "miscounted"
      => /\ Done(a)
         /\ att[a].outcome = "Rejected" /\ att[a].status = 400
         /\ ~att[a].raised
         /\ att[a].reason = <<"Expected 5 before and 5 after frames">>
         /\ att[a].live = "unknown" /\ att[a].vreason = <<>>
         /\ att[a].passed = <<>>
         /\ att[a].wrote = 0

C15_Witness ==
  \E a \in Attempts :
    /\ att[a].entry = "web" /\ att[a].frames = "miscounted" /\ Done(a)
    /\ att[a].outcome = "Rejected"

EmptyOrUndecodable(b) == b.n = 0 \/ b.none

\* C16: when either batch is empty or holds an undecodable frame the
\* verifier, called directly, fails with an error and gives no verdict.
C16_BadBatchGivesNoVerdict ==
  (/\ probe.result.kind # "unset"
   /\ EmptyOrUndecodable(probe.before) \/ EmptyOrUndecodable(probe.after))
    => probe.result.kind = "raised"

\* the vectors and the keys a load of the index would find
StoredVectors == LoadIndex(files).vectors
StoredKeys == LoadIndex(files).id_map

Answered == svc.result.kind # "unset"
WithinThreshold(q) == \E k \in 1..Len(vectors) : L2(vectors[k], q) <= THRESHOLD
IsNearest(k, q) == \A j \in 1..Len(vectors) : L2(vectors[k], q) <= L2(vectors[j], q)

\* C17: find_match returns a subject key exactly when the index is not
\* empty and its nearest entry lies within the threshold, and then the key
\* of a nearest entry; on an empty index it returns (None, None); when the
\* nearest entry is farther than the threshold it returns None with that
\* distance.
C17_MatchIffWithinThreshold ==
  Answered
    => /\ svc.result.kind = "match" <=> (vectors # <<>> /\ WithinThreshold(svc.q))
       /\ svc.result.kind = "match"
            => \E k \in 1..Len(vectors) :
                 /\ IsNearest(k, svc.q)
                 /\ svc.result.dist = L2(vectors[k], svc.q)
                 /\ k <= Len(id_map) /\ svc.result.key = id_map[k]
       /\ vectors = <<>> => svc.result.kind = "none"
       /\ (vectors # <<>> /\ ~WithinThreshold(svc.q))
            => /\ svc.result.kind = "far" /\ svc.result.key = ""
               /\ \E k \in 1..Len(vectors) :
                    IsNearest(k, svc.q) /\ svc.result.dist = L2(vectors[k], svc.q)

\* C18: whenever the service is loaded and not in the middle of an
\* add_to_index, after any adds, saves, crashes and reloads, it holds as
\* many vectors as keys, and its k-th vector and k-th key are the k-th pair
\* that was added.
C18_IndexAndKeysStayPaired ==
  svc.pc = "ready"
    => /\ Len(vectors) = Len(id_map)
       /\ Len(vectors) <= Len(svc.log)
       /\ \A k \in 1..Len(vectors) : <<vectors[k], id_map[k]>> = svc.log[k]

\* C19: when the loaded index holds a number of vectors different from the
\* number of keys, every query fails with a consistency fault: it returns
\* neither a key nor "no match".
C19_DesyncIsFatalToQueries ==
  (Answered /\ Len(vectors) # Len(id_map)) => svc.result.kind = "IndexError"

\* C20: a reset of the embeddings clears the stored vectors and the stored
\* keys together: no turn of it leaves one collection cleared beside the
\* other still populated, and when it is over both are cleared.
C20_ResetClearsBothTogether ==
  [][svc.reset' # svc.reset
       => /\ ((StoredVectors' = <<>>) # (StoredKeys' = <<>>))
               => ((StoredVectors = <<>>) # (StoredKeys = <<>>))
          /\ svc.reset' = Len(ResetPaths)
               => StoredVectors' = <<>> /\ StoredKeys' = <<>>]_vars

\* C21: whenever the service has finished its saves, a fresh instance that
\* loads the saved files answers find_match for every probe embedding as the
\* saving instance does: the same subject key and the same distance.
C21_SaveLoadRoundTrip ==
  svc.pc = "ready"
    => \A e \in Emb :
         FindMatch(StoredVectors, StoredKeys, e) = FindMatch(vectors, id_map, e)

\* a saved index of two entries that answers a probe with a key
C21_Witness ==
  /\ svc.pc = "ready" /\ Len(vectors) = 2 /\ Len(id_map) = 2
  /\ files[index_path] = FileOf(vectors) /\ files[id_map_path] = FileOf(id_map)
  /\ svc.result.kind = "match"
  /\ FindMatch(StoredVectors, StoredKeys, svc.q) = svc.result

\* a step that is one call of find_match
QueryStep ==
  svc.pc = "ready" /\ svc'.pc = "ready" /\ svc'.q # -1 /\ svc'.reset = svc.reset

\* C22: a call of find_match leaves the index, the id map and the saved
\* files as they were, and a call that repeats the embedding of the call
\* before it returns the same subject key and the same distance.
C22_FindMatchIsReadOnly ==
  [][QueryStep
       => /\ vectors' = vectors /\ id_map' = id_map /\ files' = files
          /\ svc'.q = svc.q => svc'.result = svc.result]_vars

\* two successive calls with one embedding, both answered with a key
C22_Witness ==
  /\ svc.prev.kind = "match" /\ svc.result = svc.prev /\ svc.q # -1

\* C23: a query answered with a key returns the key that was inserted
\* together with a stored vector nearest to the probe: after E1, E2, E3 were
\* inserted for S1, S2, S3, a probe nearest to E2 is answered S2.
C23_KeyInsertedWithNearestVector ==
  (Answered /\ svc.result.kind = "match")
    => \E k \in 1..Len(vectors) :
         /\ IsNearest(k, svc.q)
         /\ \E j \in 1..Len(svc.log) : svc.log[j] = <<vectors[k], svc.result.key>>

\* a step that hands one (embedding, key) pair to the index
InsertStep == Len(svc.log') = Len(svc.log) + 1

\* C24: an insertion adds exactly one entry, at the end of the index, and
\* leaves every earlier entry as it was, also when the index already holds
\* an entry of the same subject key: nothing is replaced or merged.
C24_InsertionAppends ==
  [][InsertStep
       => LET p == svc.log'[Len(svc.log')]
          IN  /\ vectors' = Append(vectors, p[1])
              /\ id_map' = Append(id_map, p[2])]_vars

\* C25: the ledger is append-only: whatever an attendance or enrollment
\* operation does, every event the ledger held before it is still there,
\* at its place and unchanged, after it.
C25_LedgerOnlyGrows ==
  [][\A i \in 1..Len(ledger) : i <= Len(ledger') /\ ledger'[i] = ledger[i]]_vars

\* the brightness change is inside [MIN_BRIGHTNESS_CHANGE,
\* MAX_BRIGHTNESS_CHANGE], the per-frame brightness changes vary (their
\* deviation is not 0) and every other metric is inside its range
InAcceptanceRanges(m) ==
  /\ Le(MIN_BRIGHTNESS_CHANGE, m.brightness_change_percent)
  /\ Le(m.brightness_change_percent, MAX_BRIGHTNESS_CHANGE)
  /\ Ge(m.color_variance, MIN_COLOR_VARIANCE)
  /\ Le(m.edge_density, MAX_EDGE_DENSITY)
  /\ Ge(m.uniformity, MIN_UNIFORMITY)
  /\ Gt(m.nonuniformity, 0) /\ Le(m.nonuniformity, MAX_NONUNIFORMITY)
  /\ Le(MIN_MEAN_DELTA, m.mean_delta) /\ Le(m.mean_delta, MAX_MEAN_DELTA)

\* C26: when the brightness change is inside its range, the per-frame
\* brightness changes vary and every other metric is inside its configured
\* acceptance range, the verifier answers is_live = true.
C26_AllInRangeIsLive ==
  GaveVerdict /\ InAcceptanceRanges(Probed) => probe.result.is_live

\* C27: whenever the edge density is above the hard-fail bound the verifier
\* answers is_live = false with the "Screen detected (edge density)" reason
\* and no scores, whatever the colour variance, the nonuniformity and the
\* brightness change are.
C27_EdgeHardFailComesFirst ==
  GaveVerdict /\ Gt(Probed.edge_density, HARD_FAIL_EDGE_DENSITY)
    => /\ ~probe.result.is_live
       /\ probe.result.reason = <<"Screen detected (edge density)">>
       /\ probe.result.scores = NoScores

\* an edge-density hard fail on a bundle that also crosses the variance
\* floor and the nonuniformity bound and has no brightness change
C27_Witness ==
  /\ GaveVerdict /\ probe.result.reason = <<"Screen detected (edge density)">>
  /\ Probed.edge_density = 700 /\ Probed.color_variance = 2100
  /\ Probed.nonuniformity = 70 /\ Probed.brightness_change_percent = 0

\* C29: the reason of a verdict is_live = false is never the positive
\* distance feedback "Distance is perfect!".
C29_PerfectDistanceIsNoReason ==
  GaveVerdict /\ ~probe.result.is_live
    => probe.result.reason # <<"Distance is perfect!">>

\* a low-score rejection of a bundle whose distance feedback is the
\* positive one
C29_Witness ==
  /\ GaveVerdict /\ ~probe.result.is_live /\ ~probe.result.hard
  /\ GetDistanceFeedback(Probed) = "Distance is perfect!"
  /\ probe.result.reason[1] = "Low confidence"

\* C28: the event an attempt writes is stored with a timestamp whose
\* calendar day is the day the attempt's duplicate check was evaluated for,
\* also when the clock passes midnight between the check and the write.
C28_EventStoredOnCheckedDay ==
  [][\A a \in Attempts :
       att'[a].wrote = att[a].wrote + 1
         => DateOf(ledger'[Len(ledger')].timestamp) = att[a].day]_vars

\* C30: after any enrollments, failed enrollments and administrative
\* resets, every subject key the identity index holds, in memory or in its
\* files, is the id of a Student row.
C30_IndexKeysHaveSubjects ==
  /\ \A k \in 1..Len(id_map) : GetStudentById(students, IntOf(id_map[k]))
  /\ \A k \in 1..Len(StoredKeys) : GetStudentById(students, IntOf(StoredKeys[k]))

\* both resets have run, one enrollment stopped before its insertion and
\* another went through
C30_Witness ==
  /\ ~files[db_path].exists /\ svc.reset = Len(ResetPaths)
  /\ svc.pc = "ready"
  /\ StoredKeys # <<>> /\ id_map = StoredKeys
  /\ \E id \in DOMAIN students : \A k \in 1..Len(id_map) : IntOf(id_map[k]) # id

====
